---------------------------- MODULE Spec2Model ----------------------------
(***************************************************************************)
(* A model of the esp.bitbucket Ansible collection: the paginated listers  *)
(* of BitbucketHelper (and of bitbucket_find / the bitbucket_fileglob      *)
(* lookup), the retry loops around fetch_url / open_url, and the           *)
(* reconciling main() of the modules.                                      *)
(*                                                                         *)
(* Three specifications share the variables:                               *)
(*   SpecList  one run of one paginated lister against a server            *)
(*   SpecReq   one call of a retrying request loop                         *)
(*   SpecMod   successive invocations of one module against one server     *)
(***************************************************************************)
EXTENDS Integers, Sequences, FiniteSets, TLC

VARIABLES
    \* ---- paginated lister (SpecList)
    lister,         \* which lister runs
    server,         \* "free": any answer; "paged": answers by 'start' from coll
    coll,           \* the collection a "paged" server holds
    lpc,            \* position: "idle", "loop", or how the lister ended
    acc,            \* the accumulator (projects, branches, filelist, ...)
    isLastPage,     \* the loop variable isLastPage
    nextPageStart,  \* the loop variable nextPageStart
    status,         \* info['status'] of the last answer (0 before any)
    reqs,           \* the 'start' value of every GET issued, in order
    resps,          \* what every answer carried (without its values)
    expected,       \* the concatenation of the values of the answered pages
    failWhenNotExists, \* the fail_when_not_exists argument of the call
    find,           \* what bitbucket_find or bitbucket_fileglob was asked and returns
    \* ---- retrying request (SpecReq)
    client,         \* which retry loop runs
    retriesParam,   \* the 'retries' parameter
    rpc,            \* position: "idle", "loop", or how the call ended
    retries,        \* the loop counter (retries / iretries)
    attempts,       \* the outcome of every attempt, in order
    sleeps,         \* how many times time.sleep was called
    cred,           \* the caller and its credential parameters
    carried,        \* the credentials every attempt carried, in order
    sleepParam,     \* the 'sleep' parameter
    callLog,        \* one record per call of request in the invocation
    \* ---- module invocations (SpecMod)
    mod,            \* which module runs
    params,         \* its parameters
    world,          \* the remote (and local) state it acts on
    runs,           \* one record per finished invocation, in order
    \* ---- two invocations against one server (SpecRace)
    race            \* the position of each of the two invocations

listVars == <<lister, server, coll, lpc, acc, isLastPage, nextPageStart,
              status, reqs, resps, expected, failWhenNotExists, find>>
reqVars  == <<client, retriesParam, rpc, retries, attempts, sleeps,
              cred, carried, sleepParam, callLog>>
modVars  == <<mod, params, world, runs, race>>
vars     == <<listVars, reqVars, modVars>>

----------------------------------------------------------------------------
(* Bounds of the model *)

\* page requests one lister run may issue before the model stops following it
MaxReq == 3
\* largest nextPageStart a "free" server puts in an answer
MaxCursor == 1
\* items a "paged" server's collection may hold
MaxItems == 3
\* items a "paged" server puts on one page (the server's own page size, which
\* is at most the limit=1000 the listers ask for)
SrvPageSize == 1
\* largest 'retries' parameter
MaxRetries == 3
\* invocations of one module in a row
MaxRuns == 2
\* objects of one kind the server may hold (webhooks of one name, application
\* links matching, pull requests, user directories)
MaxObjects == 2
MaxCalls == 2

Items == {"a", "b"}

\* info['status'] of an attempt on which no HTTP status was received.
NoStatus == -1

Min(a, b) == IF a <= b THEN a ELSE b

RECURSIVE SeqsUpTo(_, _)
SeqsUpTo(S, n) ==
    IF n = 0 THEN {<<>>}
    ELSE LET shorter == SeqsUpTo(S, n - 1)
         IN  shorter \cup {Append(s, x) : s \in shorter, x \in S}

----------------------------------------------------------------------------
(* The paginated listers *)

\* The listers that share the loop of BitbucketHelper (isLastPage /
\* nextPageStart over content['values']).
HelperListers ==
    {"get_all_projects_info", "get_all_repositories_info", "get_branches_info",
     "get_project_permissions_info", "get_repository_permissions_info",
     "get_branch_permissions_info", "get_webhooks_info", "get_pull_request_info"}

\* The file listers check info['status'] inside the loop.
FileListers == {"get_list_of_files", "bitbucket_fileglob"}

Listers == HelperListers \cup FileListers

\* The single-item lookups: one GET, no loop.
SingleLookups == {"get_project_info", "get_repository_info"}

\* An answer to one page request, as BitbucketHelper.request hands it over:
\* info['status'] and the keys of content.  A key that is absent has its
\* has* flag FALSE (and a don't-care value).
Page(st, vals, il, hn, n) ==
    [status |-> st, hasValues |-> TRUE, values |-> vals,
     isLast |-> il, hasNext |-> hn, next |-> n]

\* A non-200 answer: an error body, with none of the paging keys.
ErrorAnswer(st) ==
    [status |-> st, hasValues |-> FALSE, values |-> <<>>,
     isLast |-> "absent", hasNext |-> FALSE, next |-> 0]

\* A non-200 answer whose body nevertheless is an object with a 'values'
\* list (and no paging key).
ErrorPage(st) ==
    [status |-> st, hasValues |-> TRUE, values |-> <<>>,
     isLast |-> "absent", hasNext |-> FALSE, next |-> 0]

ErrorStatuses == {400, 401, 404, 500, NoStatus}

\* The 'values' one answered page may carry: none, one entry, or two.
PageValues == SeqsUpTo(Items, 1) \cup {<<"a", "b">>}

\* Everything a server may answer to a page request.
FreeAnswers ==
    {Page(200, v, il, TRUE, n) :
        v \in PageValues, il \in {"absent", "true", "false"}, n \in 0..MaxCursor}
    \cup {Page(200, v, il, FALSE, 0) :
        v \in PageValues, il \in {"absent", "true", "false"}}
    \cup {ErrorAnswer(st) : st \in ErrorStatuses}
    \cup {ErrorPage(st) : st \in ErrorStatuses}

\* The page a Bitbucket server holding collection c answers for 'start' s:
\* 'values', 'isLastPage', and 'nextPageStart' only when it is not the last.
PageAt(c, s) ==
    LET last == s + SrvPageSize >= Len(c)
    IN  Page(200, SubSeq(c, s + 1, Min(s + SrvPageSize, Len(c))),
             IF last THEN "true" ELSE "false",
             ~last, IF last THEN 0 ELSE s + SrvPageSize)

\* Number of pages the collection c is split over.
NumPages(c) ==
    IF Len(c) = 0 THEN 1 ELSE (Len(c) + SrvPageSize - 1) \div SrvPageSize

ServerAnswers(s) ==
    IF server = "paged" THEN {PageAt(coll, s)} ELSE FreeAnswers

\* The 'start' query parameter of the next GET.  get_branch_permissions_info
\* formats its URL once, before the loop, with nextPageStart = 0.
StartSent(l, nps) ==
    IF l = "get_branch_permissions_info" THEN 0 ELSE nps

\* xs.extend(content['values'])
ExtendDropsOld(xs, vals) == vals
Extend(xs, vals) == xs \o vals

\* if 'isLastPage' in content: isLastPage = content['isLastPage'] / else: True
LastPageKeepsLooping(r) == r.isLast = "true"
LastPageAfter(r) ==
    IF r.isLast # "absent" THEN r.isLast = "true" ELSE TRUE

\* if 'isLastPage' in content: if 'nextPageStart' in content: nextPageStart = ...
CursorAfter(r, nps) ==
    IF r.isLast # "absent" /\ r.hasNext THEN r.next ELSE nps

\* How a file lister ends on the status of an answer ("" when it goes on).
\* Both raise AnsibleError with one of three messages; bitbucket_find never
\* imports AnsibleError, so there the raise itself is a NameError.
FileListerRaise(l, st) ==
    IF st = 200 THEN ""
    ELSE IF l = "get_list_of_files" THEN "crash"
    ELSE IF st = 400 THEN "not_a_directory"
    ELSE IF st = 404 THEN "no_repository"
    ELSE "listing_failed"

\* The statuses for which a helper lister returns its list.
ReturnStatuses(l) ==
    IF l \in {"get_webhooks_info", "get_pull_request_info"} THEN {200, 201}
    ELSE {200}

\* How a helper lister ends once the loop is over, from info['status'].
HelperOutcome(l, st, fail_when_not_exists) ==
    IF st \in ReturnStatuses(l) THEN "returned"
    ELSE IF st = 400 /\ l = "get_all_projects_info" THEN "failed"
    ELSE IF st = 401 /\ l \notin {"get_all_projects_info",
                                  "get_branch_permissions_info"} THEN "failed"
    ELSE IF st = 404 /\ l # "get_all_projects_info"
         THEN (IF fail_when_not_exists THEN "failed" ELSE "none")
    ELSE "failed"

\* How a single-item lookup ends, from info['status'].
SingleOutcome(st, fail_when_not_exists) ==
    IF st = 200 THEN "returned"
    ELSE IF st = 401 THEN "failed"
    ELSE IF st = 404 THEN (IF fail_when_not_exists THEN "failed" ELSE "none")
    ELSE "failed"

\* What the callers of a helper do with a None it returned: "absent" when
\* they test it ('if not ...') or only store it, "crash" when they iterate
\* over it (any(... for d in None), list.extend(None)).
Consumers(l) ==
    IF l \in SingleLookups THEN {"absent"}
    ELSE IF l \in {"get_branches_info", "get_webhooks_info",
                   "get_all_repositories_info"} THEN {"crash", "absent"}
    ELSE {"crash"}

ListerInit ==
    /\ lister \in Listers \cup SingleLookups
    /\ server \in (IF lister \in SingleLookups THEN {"free"} ELSE {"free", "paged"})
    /\ coll \in (IF server = "paged" THEN SeqsUpTo(Items, MaxItems) ELSE {<<>>})
    /\ failWhenNotExists \in (IF lister \in FileListers THEN {FALSE} ELSE BOOLEAN)
    /\ lpc = "loop"
    /\ acc = <<>>
    /\ isLastPage = FALSE
    /\ nextPageStart = 0
    /\ status = 0
    /\ reqs = <<>>
    /\ resps = <<>>
    /\ expected = <<>>
    /\ find = <<>>

ListerIdle ==
    /\ lister = "none" /\ server = "none" /\ coll = <<>> /\ lpc = "idle"
    /\ acc = <<>> /\ isLastPage = FALSE /\ nextPageStart = 0 /\ status = 0
    /\ reqs = <<>> /\ resps = <<>> /\ expected = <<>>
    /\ failWhenNotExists = FALSE
    /\ find = <<>>

\* The log entry of an answer.
Seen(r) == [status |-> r.status, isLast |-> r.isLast,
            hasNext |-> r.hasNext, next |-> r.next]

\* One iteration of a helper lister's loop: the GET, then the answer taken in.
\* content['values'] of an answer without 'values' is a KeyError.
HelperPage ==
    /\ lister \in HelperListers
    /\ lpc = "loop" /\ ~isLastPage
    /\ Len(reqs) < MaxReq
    /\ \E r \in ServerAnswers(StartSent(lister, nextPageStart)) :
        /\ reqs' = Append(reqs, StartSent(lister, nextPageStart))
        /\ resps' = Append(resps, Seen(r))
        /\ expected' = expected \o r.values
        /\ status' = r.status
        /\ IF r.hasValues
           THEN /\ acc' = Extend(acc, r.values)
                /\ isLastPage' = LastPageAfter(r)
                /\ nextPageStart' = CursorAfter(r, nextPageStart)
                /\ lpc' = "loop"
           ELSE /\ lpc' = "crash"
                /\ UNCHANGED <<acc, isLastPage, nextPageStart>>
    /\ UNCHANGED <<lister, server, coll, failWhenNotExists, find, reqVars, modVars>>

\* A helper lister leaves its loop and ends by info['status'].
HelperReturn ==
    /\ lister \in HelperListers
    /\ lpc = "loop" /\ isLastPage
    /\ lpc' = HelperOutcome(lister, status, failWhenNotExists)
    /\ UNCHANGED <<lister, server, coll, acc, isLastPage, nextPageStart,
                   status, reqs, resps, expected, failWhenNotExists,
                   find, reqVars, modVars>>

\* One iteration of get_list_of_files (bitbucket_find) or of the listing loop
\* of the bitbucket_fileglob lookup: the status is checked before the paging
\* keys are read.
FilePage ==
    /\ lister \in FileListers
    /\ lpc = "loop" /\ ~isLastPage
    /\ Len(reqs) < MaxReq
    /\ \E r \in ServerAnswers(StartSent(lister, nextPageStart)) :
        /\ reqs' = Append(reqs, StartSent(lister, nextPageStart))
        /\ resps' = Append(resps, Seen(r))
        /\ expected' = expected \o r.values
        /\ status' = r.status
        /\ IF FileListerRaise(lister, r.status) = ""
           THEN /\ acc' = Extend(acc, r.values)
                /\ isLastPage' = LastPageAfter(r)
                /\ nextPageStart' = CursorAfter(r, nextPageStart)
                /\ lpc' = "loop"
           ELSE /\ lpc' = FileListerRaise(lister, r.status)
                /\ UNCHANGED <<acc, isLastPage, nextPageStart>>
    /\ UNCHANGED <<lister, server, coll, failWhenNotExists, find, reqVars, modVars>>

\* A file lister leaves its loop and returns the list.
FileReturn ==
    /\ lister \in FileListers
    /\ lpc = "loop" /\ isLastPage
    /\ lpc' = "returned"
    /\ UNCHANGED <<lister, server, coll, acc, isLastPage, nextPageStart,
                   status, reqs, resps, expected, failWhenNotExists,
                   find, reqVars, modVars>>

\* pattern.search(file_path), for the patterns (regular expressions) "a"
\* and ".".
Search(pattern, path) == pattern = "." \/ pattern = path

\* What a search may be given: one pattern or two that accept a same path,
\* and either no grep or a
\* grep, in which case hits are the paths whose content grep.search accepts
\* and json the paths whose content is a JSON document, for which the answer
\* has no 'content' key and slurp_file raises KeyError.
Searches ==
    {[patterns |-> ps, grep |-> g[1], hits |-> g[2], json |-> g[3]] :
        ps \in {<<"a">>, <<".">>, <<"a", ".">>},
        g \in {<<FALSE, {}, {}>>, <<TRUE, {"a"}, {}>>, <<TRUE, Items, {}>>,
               <<TRUE, Items, {"b"}>>}}

\* The two loops of main(): for each pattern, each listed path the pattern
\* accepts and, with a grep, whose content the grep accepts.
RECURSIVE Selected(_, _, _, _)
Selected(q, all_files, i, k) ==
    IF i > Len(q.patterns) THEN <<>>
    ELSE IF k > Len(all_files) THEN Selected(q, all_files, i + 1, 1)
    ELSE LET file_path == all_files[k]
             rest      == Selected(q, all_files, i, k + 1)
         IN  IF Search(q.patterns[i], file_path)
                /\ (q.grep => file_path \in q.hits)
             THEN <<file_path>> \o rest
             ELSE rest

\* slurp_file is called on a path whose content is a JSON document.
SlurpRaises(q, all_files) ==
    /\ q.grep
    /\ \E i \in 1..Len(q.patterns), k \in 1..Len(all_files) :
          Search(q.patterns[i], all_files[k]) /\ all_files[k] \in q.json

\* list(set(ret)): the different elements of ret, in any order.
ListOfSetKeepsAll(ret) == {ret}
ListOfSet(ret) ==
    LET S == {ret[i] : i \in 1..Len(ret)}
    IN  {f \in [1..Cardinality(S) -> S] : {f[i] : i \in 1..Cardinality(S)} = S}

\* main() of bitbucket_find, and run() of bitbucket_fileglob, after the
\* listing: the search and the result.
FindFiles ==
    /\ lister \in FileListers
    /\ lpc = "returned"
    /\ \E q \in Searches :
          IF SlurpRaises(q, acc)
          THEN /\ lpc' = "crash"
               /\ find' = [search |-> q, ret |-> <<>>, files |-> <<>>]
          ELSE /\ lpc' = "found"
               /\ \E files \in ListOfSet(Selected(q, acc, 1, 1)) :
                     find' = [search |-> q, ret |-> Selected(q, acc, 1, 1),
                              files |-> files]
    /\ UNCHANGED <<lister, server, coll, acc, isLastPage, nextPageStart,
                   status, reqs, resps, expected, failWhenNotExists,
                   reqVars, modVars>>

\* get_project_info / get_repository_info: the GET and the status handling.
SingleLookup ==
    /\ lister \in SingleLookups
    /\ lpc = "loop"
    /\ \E st \in {200} \cup ErrorStatuses :
        /\ reqs' = Append(reqs, 0)
        /\ resps' = Append(resps, Seen(ErrorAnswer(st)))
        /\ status' = st
        /\ lpc' = SingleOutcome(st, failWhenNotExists)
    /\ UNCHANGED <<lister, server, coll, acc, isLastPage, nextPageStart,
                   expected, failWhenNotExists, find, reqVars, modVars>>

\* The caller goes on with the None a helper returned.
Consume ==
    /\ lpc = "none"
    /\ lpc' \in Consumers(lister)
    /\ UNCHANGED <<lister, server, coll, acc, isLastPage, nextPageStart,
                   status, reqs, resps, expected, failWhenNotExists,
                   find, reqVars, modVars>>

----------------------------------------------------------------------------
(* Specifications *)

ReqIdle ==
    /\ client = "none" /\ retriesParam = 0 /\ rpc = "idle" /\ retries = 0
    /\ attempts = <<>> /\ sleeps = 0
    /\ cred = <<>> /\ carried = <<>>
    /\ sleepParam = 0 /\ callLog = <<>>

ModIdle ==
    /\ mod = "none" /\ params = <<>> /\ world = <<>> /\ runs = <<>>
    /\ race = <<>>

InitList == ListerInit /\ ReqIdle /\ ModIdle

NextList ==
    \/ HelperPage
    \/ HelperReturn
    \/ FilePage
    \/ FileReturn
    \/ SingleLookup
    \/ Consume
    \/ FindFiles

SpecList == InitList /\ [][NextList]_vars

----------------------------------------------------------------------------
(* Claims about the paginated listers (SpecList) *)

Last(q) == q[Len(q)]

\* The answers so far are N status-200 pages of which only the last has
\* isLastPage = true, every earlier one carrying isLastPage = false and a
\* nextPageStart.
OnlyLastPageIsLast ==
    /\ Len(resps) >= 1
    /\ \A i \in 1..Len(resps) : resps[i].status = 200
    /\ \A i \in 1..(Len(resps) - 1) :
          resps[i].isLast = "false" /\ resps[i].hasNext
    /\ Last(resps).isLast = "true"

\* C1 -- Pagination completeness: a lister that was answered N status-200
\* pages, only the last with isLastPage = true, returns the concatenation of
\* the pages' values in page order and within-page order, duplicates kept,
\* and has issued exactly N GET requests.
C1_PaginationCompleteness ==
    (lpc = "returned" /\ OnlyLastPageIsLast)
        => /\ acc = expected
           /\ Len(reqs) = Len(resps)

\* A lister returned after several pages, with an item listed twice.
C1_Witness ==
    /\ lpc = "returned" /\ OnlyLastPageIsLast
    /\ Len(resps) >= 2
    /\ \E i, j \in 1..Len(acc) : i < j /\ acc[i] = acc[j]
    /\ \E i, j \in 1..Len(acc) : i < j /\ acc[i] # acc[j]

\* C2 -- Never revisits a cursor: within one listing run no two GET requests
\* carry the same 'start'; the first carries 0 and every later one the
\* nextPageStart of the page just received.  Stated against a server that
\* pages a collection by 'start' (so every nextPageStart it sends is fresh):
\* a violation there is the lister's doing.
C2_NeverRevisitsCursor ==
    server = "paged" =>
        /\ \A i, j \in 1..Len(reqs) : i # j => reqs[i] # reqs[j]
        /\ Len(reqs) >= 1 => reqs[1] = 0
        /\ \A i \in 2..Len(reqs) : reqs[i] = resps[i - 1].next

\* C3 -- Listing terminates: against a server that holds a finite collection
\* over two or more pages and answers each request by its 'start', the
\* lister reaches the page with isLastPage = true and returns.  Server and
\* lister are deterministic, so the lister terminates exactly when every
\* request fetches a page not fetched before: it never issues more requests
\* than the collection has pages.  (A further request repeats a 'start', and
\* the run from a repeated 'start' repeats for ever.)
C3_ListingTerminates ==
    (server = "paged" /\ NumPages(coll) >= 2)
        => Len(reqs) <= NumPages(coll)

\* C4 -- Pagination termination safety: an answer without the isLastPage key
\* is taken as the last page, whatever else it carries: it is the last
\* answer of the run and the loop is over after it.
C4_MissingIsLastPageStops ==
    \A i \in 1..Len(resps) :
        resps[i].isLast = "absent"
            => /\ i = Len(resps)
               /\ lpc = "loop" => isLastPage

\* A lister returned after a page that had no isLastPage but a nextPageStart.
C4_Witness ==
    /\ lpc = "returned"
    /\ Len(resps) >= 2
    /\ Last(resps).isLast = "absent" /\ Last(resps).hasNext
    /\ Last(resps).status = 200

\* The three cases a file listing tells apart by the status of the answer.
StatusClass(st) == IF st \in {400, 404} THEN st ELSE 500

\* C16 -- Three-way listing error: the error a file listing (get_list_of_files
\* of bitbucket_find, the listing of the bitbucket_fileglob lookup) ends with
\* after a non-200 answer is one it would not have ended with for a status of
\* another of the three cases (400, 404, any other), so the caller can tell
\* the three apart.
C16_ThreeWayListingError ==
    (lister \in FileListers /\ lpc \notin {"loop", "returned"}) =>
        \A st \in ErrorStatuses :
            StatusClass(st) # StatusClass(status)
                => FileListerRaise(lister, st) # lpc

\* C17 -- Listing fails on the first non-success page: a page request
\* answered with a non-200 status (a transport failure included) is the last
\* request of the run, and the run ends in a reported failure (fail_json, or
\* the AnsibleError of a lookup; the None of C18 for a 404): it neither
\* returns a list nor ends in an unhandled error.
C17_ListingFailsOnFirstNonSuccess ==
    lister \in Listers =>
        \A i \in 1..Len(resps) :
            resps[i].status # 200
                => /\ i = Len(resps)
                   /\ lpc \notin {"returned", "crash"}
                   /\ lpc = "loop" => isLastPage

\* C18 -- Not-found sentinel: a helper (single-item lookup or paginated
\* lister) whose request is answered 404 returns None when called with
\* fail_when_not_exists=false, and the caller goes on with it without an
\* unhandled error; called with fail_when_not_exists=true it fails.
C18_NotFoundSentinel ==
    (/\ lister \in HelperListers \cup SingleLookups
     /\ resps # <<>> /\ Last(resps).status = 404)
    => IF failWhenNotExists
       THEN lpc \in {"loop", "failed"}
       ELSE lpc \in {"loop", "none", "absent"}

----------------------------------------------------------------------------
(* The retrying request loops *)

\* The three retry loops of the collection.
Clients == {"BitbucketHelper.request", "bitbucket_file", "bitbucket_fileglob"}

\* What one attempt may end in: a connection-level failure, or the HTTP
\* status the server sent.
AttemptOutcomes == {NoStatus, 200, 404, 500}

\* open_url raises HTTPError for a 4xx / 5xx status; both lookups turn every
\* exception into 'error'.
LookupError(st) == st = NoStatus \/ st >= 400

\* Whether the loop goes on (sleep, next attempt) after an attempt that
\* ended in st, or breaks out.
RetriesAfter(c, st) ==
    IF c = "BitbucketHelper.request" THEN st = NoStatus ELSE LookupError(st)

\* How the code after the loop ends, given the attempts made: with no
\* attempt (retries < 1) 'response' was never bound; bitbucket_file reads the
\* response, which is None after an error, inside its try block; the other
\* two hand info (with the last status) to the caller.
AfterLoop(c, atts) ==
    IF c = "bitbucket_file"
    THEN IF atts = <<>> \/ LookupError(atts[Len(atts)]) THEN "raised" ELSE "returned"
    ELSE IF atts = <<>> THEN "crash" ELSE "returned"

\* Who calls: a module that declares username and token mutually exclusive
\* and one of them required; bitbucket_directory_sync, which declares
\* neither; a lookup plugin (its own request method, no such check).
Callers(c) ==
    IF c = "BitbucketHelper.request"
    THEN {"module", "bitbucket_directory_sync"}
    ELSE {"lookup"}

\* The combinations of token and username that get past the argument
\* checks of the caller.
ArgumentsValidWithoutExclusion(caller, token, username) ==
    caller = "module" => (token \/ username)
ArgumentsValid(caller, token, username) ==
    caller = "module" => (token \/ username) /\ ~(token /\ username)

\* The credential parameters as the request finds them: whether token and
\* username were given, module.params['url_username'] (set from username
\* by BitbucketHelper.__init__) and module.params['force_basic_auth'].
Credentials(caller, token, username, fba) ==
    [caller |-> caller, token |-> token, username |-> username,
     urlUsername |-> username, forceBasicAuth |-> fba]

CredChoices(c) ==
    {Credentials(caller, token, username, fba) :
        caller \in Callers(c), token \in BOOLEAN, username \in BOOLEAN,
        fba \in (IF c = "BitbucketHelper.request" THEN BOOLEAN ELSE {TRUE})}

\* What one attempt carries: the Bearer header; the username and password
\* handed to fetch_url / open_url for basic authentication, and whether
\* they go out as an Authorization: Basic header straight away.
Carried(cr) ==
    [bearer |-> cr.token, basic |-> cr.urlUsername,
     basicHeader |-> cr.urlUsername /\ cr.forceBasicAuth]

\* 'retries = 1' (iretries = 1) at the head of the loop, whatever the
\* counter of the call before ended at.
RetriesCarriedOver(previous) == previous
RetriesAtStart(previous) == 1

\* The record of a call that starts: the 'retries' and 'sleep' it finds.
CallStarted(r, sl) ==
    [budget |-> r, sleep |-> sl, finished |-> FALSE, attempts |-> 0,
     exhausted |-> FALSE, retriesLeft |-> r, sleepLeft |-> sl]

\* The record of the call once it has ended: the attempts it made, whether
\* all of them failed, and the 'retries' and 'sleep' it leaves.
CallFinished(c, atts, r, sl) ==
    [c EXCEPT !.finished = TRUE, !.attempts = Len(atts),
              !.exhausted = \A i \in 1..Len(atts) : atts[i] = NoStatus,
              !.retriesLeft = r, !.sleepLeft = sl]

RequestInit ==
    /\ client \in Clients
    /\ retriesParam \in 0..MaxRetries
    /\ sleepParam \in {0, 5}
    /\ callLog = <<CallStarted(retriesParam, sleepParam)>>
    /\ cred \in {cr \in CredChoices(client) :
                    ArgumentsValid(cr.caller, cr.token, cr.username)}
    /\ rpc = "start"
    /\ retries = RetriesAtStart(1)
    /\ attempts = <<>>
    /\ sleeps = 0
    /\ carried = <<>>

\* login_to_bitbucket_server, before the first request of
\* bitbucket_directory_sync: username, password, url_username and
\* url_password are set to None and force_basic_auth to True.
Login ==
    /\ rpc = "start"
    /\ cred.caller = "bitbucket_directory_sync"
    /\ cred' = [cred EXCEPT !.urlUsername = FALSE, !.forceBasicAuth = TRUE]
    /\ rpc' = "cleared"
    /\ UNCHANGED <<client, retriesParam, retries, attempts, sleeps, carried,
                   sleepParam, callLog, listVars, modVars>>

\* The head of request: with a token the Bearer header is added and
\* force_basic_auth is switched off.
Prepare ==
    /\ \/ rpc = "start" /\ cred.caller # "bitbucket_directory_sync"
       \/ rpc \in {"cleared", "call"}
    /\ cred' = [cred EXCEPT !.forceBasicAuth = IF cred.token THEN FALSE ELSE @]
    /\ rpc' = "loop"
    /\ UNCHANGED <<client, retriesParam, retries, attempts, sleeps, carried,
                   sleepParam, callLog, listVars, modVars>>

\* One iteration of the while loop: the attempt, then either break or
\* time.sleep and retries += 1.
Attempt ==
    /\ rpc = "loop"
    /\ retries <= retriesParam
    /\ \E st \in AttemptOutcomes :
        /\ attempts' = Append(attempts, st)
        /\ carried' = Append(carried, Carried(cred))
        /\ IF RetriesAfter(client, st)
           THEN /\ sleeps' = sleeps + 1
                /\ retries' = retries + 1
                /\ rpc' = "loop"
           ELSE /\ rpc' = "broke"
                /\ UNCHANGED <<sleeps, retries>>
    /\ UNCHANGED <<client, retriesParam, cred, sleepParam, callLog,
                   listVars, modVars>>

\* The code after the loop, reached by break or by the loop condition.
Finish ==
    /\ \/ rpc = "broke"
       \/ rpc = "loop" /\ retries > retriesParam
    /\ rpc' = AfterLoop(client, attempts)
    /\ callLog' = [callLog EXCEPT ![Len(callLog)] =
                    CallFinished(@, attempts, retriesParam, sleepParam)]
    /\ UNCHANGED <<client, retriesParam, retries, attempts, sleeps,
                   cred, carried, sleepParam, listVars, modVars>>

\* The caller goes on after a call that returned and calls request again.
NextCall ==
    /\ rpc = "returned"
    /\ Len(callLog) < MaxCalls
    /\ rpc' = "call"
    /\ retries' = RetriesAtStart(retries)
    /\ attempts' = <<>>
    /\ sleeps' = 0
    /\ carried' = <<>>
    /\ callLog' = Append(callLog, CallStarted(retriesParam, sleepParam))
    /\ UNCHANGED <<client, retriesParam, cred, sleepParam, listVars, modVars>>

InitReq == ListerIdle /\ RequestInit /\ ModIdle

NextReq == Login \/ Prepare \/ Attempt \/ Finish \/ NextCall

SpecReq == InitReq /\ [][NextReq]_vars

----------------------------------------------------------------------------
(* Claims about the retrying request loops (SpecReq) *)

RequestDone == rpc \in {"returned", "raised", "crash"}

\* C5 -- Retry only on transport failure: every attempt but the last one of a
\* request ended in a connection-level failure with no HTTP status; after an
\* attempt that received an HTTP status (4xx and 5xx included) no further
\* attempt is made.  Stated for BitbucketHelper.request and for the loops of
\* the bitbucket_file and bitbucket_fileglob lookups.
C5_RetryOnlyOnTransportFailure ==
    \A i \in 1..(Len(attempts) - 1) : attempts[i] = NoStatus

\* C6 -- Retry bound: a request whose every attempt ends in a connection
\* error makes exactly 'retries' attempts and then reports the failure,
\* having slept between consecutive attempts only: retries - 1 sleeps, none
\* after the final attempt.
C6_RetryBound ==
    (/\ RequestDone
     /\ retriesParam >= 1
     /\ \A i \in 1..Len(attempts) : attempts[i] = NoStatus)
    => /\ Len(attempts) = retriesParam
       /\ sleeps = retriesParam - 1
       /\ rpc \in {"returned", "raised"}

\* C20 (as stated) -- Credential exclusivity: every attempt sent by
\* BitbucketHelper.request uses exactly one credential mode: with a token the
\* Bearer header and no basic authentication, otherwise username/password
\* basic authentication and no Bearer header.
C20_ExactlyOneCredentialMode ==
    client = "BitbucketHelper.request" =>
        \A i \in 1..Len(carried) :
            IF cred.token
            THEN carried[i].bearer /\ ~carried[i].basic
            ELSE carried[i].basic /\ ~carried[i].bearer

\* C20 -- Credential exclusivity: no attempt sent by BitbucketHelper.request
\* carries both the Bearer header and basic-authentication credentials; it
\* carries the Bearer header exactly when a token is given, and then never
\* an Authorization: Basic header; called by a module other than
\* bitbucket_directory_sync without a token it carries the username and
\* password for basic authentication.
C20_NeverBothCredentialModes ==
    client = "BitbucketHelper.request" =>
        \A i \in 1..Len(carried) :
            /\ ~(carried[i].bearer /\ carried[i].basic)
            /\ carried[i].bearer = cred.token
            /\ carried[i].bearer => ~carried[i].basicHeader
            /\ (cred.caller = "module" /\ ~cred.token) => carried[i].basic

\* bitbucket_directory_sync given a token and a username: its request went
\* out with the Bearer header only.
C20_Witness ==
    /\ client = "BitbucketHelper.request"
    /\ cred.caller = "bitbucket_directory_sync"
    /\ cred.token /\ cred.username
    /\ rpc = "returned"
    /\ carried # <<>>

----------------------------------------------------------------------------
(* The modules: what one invocation of main() decides and sends *)

Modules ==
    {"bitbucket_project", "bitbucket_repo", "bitbucket_webhook",
     "bitbucket_branch", "bitbucket_default_branch", "bitbucket_pull_request",
     "bitbucket_project_reviewer", "bitbucket_application_link",
     "bitbucket_directory_sync", "bitbucket_clone", "bitbucket_push",
     "bitbucket_repo_permissions", "bitbucket_branch_permissions",
     "bitbucket_copy", "git_commit"}

\* The parameters of an invocation that its decision depends on; a module
\* reads only its own.  For bitbucket_repo_permissions state "absent" stands
\* for permission='' (revoke) and "present" for a permission to grant.
\* users: the user names of a restriction's exemptions as given to
\* bitbucket_branch_permissions: "none", all in "upper" case, or some in
\* "lower" (or mixed) case.
\* source, text: bitbucket_copy is given the content to upload in a "src"
\* file or as the "content" string; text is that content.  tag: git_commit or
\* bitbucket_push is given a tag.
Params(st, isd, f, c, d, us, so, tx, tg) ==
    [state |-> st, is_default |-> isd, force |-> f, commit |-> c, delete |-> d,
     users |-> us, source |-> so, text |-> tx, tag |-> tg]

\* What a module finds when it starts.  objs: the listed objects, each by how
\* it compares with the desired one ("match" / "other"; a pull request by the
\* branches that match: "both", "from", "to"; a default-reviewer condition by
\* the displayId of its targetRefMatcher: "match" for refs/heads/<branch>,
\* "plain" for <branch>; a user or group with access to the repository by
\* its name and permission: "match" when both equal the parameters, "named"
\* when only the name does; a branch restriction: "match" when 'found'
\* selects it, "same" when it is the desired restriction as the module posts
\* it but 'found' does not select it; "gone" once deleted during the
\* invocation).
\* For bitbucket_copy objs holds the body of the destination file, if there
\* is one.
\* isDefault: the matching branch is the repository's default.  path: the
\* local repodir ("empty": a directory with nothing in it).  pending: untracked files or a dirty working tree.
\* ahead: commits the remote does not have.  hasRemote: the local repository
\* has a remote.  head: the commit HEAD is at, the commits of the branch
\* numbered from 1 (0: no commit yet).  tag: the commit the tag of the given
\* name refers to (0: no such tag).  versions: the 'version' of each listed
\* pull request (its 'id' is its place in objs).
World(o, isd, pa, pe, ah, hr, he, ta, vs, rp) ==
    [objs |-> o, isDefault |-> isd, path |-> pa, pending |-> pe,
     ahead |-> ah, hasRemote |-> hr, head |-> he, tag |-> ta, versions |-> vs,
     repo |-> rp, scripts |-> 0]

Matches(objs) == {i \in 1..Len(objs) : objs[i] = "match"}

\* A call main() may make: the function, and the listed object it is about
\* (0: none).
\* version: the 'version' it passes in the request body (-1: none).
Call(op, target) == [op |-> op, target |-> target, version |-> -1]

\* The HTTP method the function passes to BitbucketHelper.request.
Method(op) ==
    CASE op \in {"create_project", "create_repository", "create_webhook",
                 "create_branch", "create_pull_request", "add_default_reviewer",
                 "create_branch_permission", "login_to_bitbucket_server"} -> "POST"
      [] op \in {"set_default_branch", "create_application_link",
                 "update_application_link", "grant_repository_permissions",
                 "copy_file"} -> "PUT"
      [] op \in {"delete_project", "delete_repository", "delete_pull_request",
                 "delete_default_reviewer", "delete_application_link",
                 "revoke_repository_permissions",
                 "delete_branch_permission"} -> "DELETE"
      [] OTHER -> "GET"

\* The status on which the function returns the answer as a success.
SuccessStatus(op) ==
    CASE op \in {"create_project", "create_repository", "create_webhook",
                 "create_pull_request", "create_application_link",
                 "update_application_link"} -> 201
      [] op = "delete_repository" -> 202
      [] op \in {"delete_project", "set_default_branch", "delete_pull_request",
                 "delete_default_reviewer", "delete_application_link",
                 "grant_repository_permissions",
                 "revoke_repository_permissions",
                 "delete_branch_permission"} -> 204
      [] OTHER -> 200

RejectStatuses == {400, 401, 404, 409, 500, NoStatus}

AllStatuses == {200, 201, 202, 204} \cup RejectStatuses

\* What a server may answer to the request of op.
AnswerStatuses(op) == {SuccessStatus(op)} \cup RejectStatuses

\* How the function ends on status st: "continue" when it returns to main()
\* (with the content, with None, or with the 'deleted: False' record of
\* delete_application_link), "failed" when it calls fail_json, "crash" when
\* the handling itself raises (an undefined name, a missing format key).
OpOutcome(op, st) ==
    IF st = SuccessStatus(op) THEN "continue"
    ELSE CASE op = "create_webhook" ->
                IF st = 401 THEN "failed" ELSE IF st = 404 THEN "crash" ELSE "continue"
           [] op \in {"create_pull_request", "delete_pull_request"} ->
                IF st \in {401, 409} THEN "failed"
                ELSE IF st = 404 THEN "crash" ELSE "continue"
           [] op = "add_default_reviewer" ->
                IF st \in {401, 404} THEN "crash"
                ELSE IF st \in {400, 409} THEN "failed" ELSE "continue"
           [] op = "delete_default_reviewer" ->
                IF st \in {401, 404} THEN "crash"
                ELSE IF st = 400 THEN "failed" ELSE "continue"
           [] op = "create_branch" -> IF st = 404 THEN "crash" ELSE "failed"
           [] op = "set_default_branch" -> "crash"
           [] op = "delete_application_link" -> "continue"
           [] op = "get_latest_commit" ->
                IF st \in {400, 401, 404} THEN "failed" ELSE "continue"
           [] op = "grant_repository_permissions" ->
                IF st \in {400, 401, 404} THEN "failed" ELSE "crash"
           [] op = "revoke_repository_permissions" ->
                IF st \in {401, 404, 409} THEN "failed" ELSE "crash"
           [] OTHER -> "failed"

\* How the restriction that create_branch_permission posted compares, once
\* stored and listed, with the same desired restriction: 'found' compares the
\* listed user names with the desired ones in upper case, so a restriction
\* stored with a name that is not upper case is "same" as the desired one
\* but no "match".
StoredRestriction(users) == IF users = "lower" THEN "same" ELSE "match"

\* The server's state once it has answered op with its success status.
Apply(op, target, w) ==
    CASE op \in {"create_project", "create_repository", "create_webhook",
                 "create_application_link"} ->
                [w EXCEPT !.objs = Append(@, "match")]
      [] op = "create_branch_permission" ->
                [w EXCEPT !.objs = Append(@, StoredRestriction(params.users))]
      [] op = "create_branch" ->
                [w EXCEPT !.objs = Append(@, "match"), !.isDefault = FALSE]
      [] op = "create_pull_request" ->
                [w EXCEPT !.objs = Append(@, "both"), !.versions = Append(@, 0)]
      [] op = "add_default_reviewer" -> [w EXCEPT !.objs = Append(@, "plain")]
      [] op = "set_default_branch" -> [w EXCEPT !.isDefault = TRUE]
      [] op = "copy_file" -> [w EXCEPT !.objs = <<params.text>>]
      [] op = "grant_repository_permissions" ->
                IF target = 0 THEN [w EXCEPT !.objs = Append(@, "match")]
                ELSE [w EXCEPT !.objs[target] = "match"]
      [] op \in {"delete_project", "delete_repository", "delete_pull_request",
                 "delete_default_reviewer", "delete_application_link",
                 "revoke_repository_permissions", "delete_branch_permission"} ->
                [w EXCEPT !.objs[target] = "gone"]
      [] OTHER -> w

\* The listing a later invocation reads: without the deleted objects.
Settle(w) ==
    LET kept == SelectSeq([i \in 1..Len(w.objs) |-> i],
                          LAMBDA i : w.objs[i] # "gone")
    IN  [w EXCEPT !.objs = [k \in 1..Len(kept) |-> w.objs[kept[k]]],
                  !.versions = IF @ = <<>> THEN <<>>
                               ELSE [k \in 1..Len(kept) |-> w.versions[kept[k]]]]

\* One call per listed object of the given kind, in listing order.
ForEach(objs, kind, op) ==
    SelectSeq([i \in 1..Len(objs) |-> Call(op, i)],
              LAMBDA c : objs[c.target] = kind)

\* The calls main() makes under 'if not module.check_mode', in order, as
\* decided from what it read at its start.
ProjectDecision(p, w) ==
    IF Matches(w.objs) = {} /\ p.state = "present"
    THEN <<Call("create_project", 0)>>
    ELSE IF Matches(w.objs) # {} /\ p.state = "absent"
    THEN <<Call("delete_project", 1)>>
    ELSE <<>>

RepoDecision(p, w) ==
    IF Matches(w.objs) = {} /\ p.state = "present"
    THEN <<Call("create_repository", 0)>>
    ELSE IF Matches(w.objs) # {} /\ p.state = "absent"
    THEN <<Call("delete_repository", 1)>>
    ELSE <<>>

WebhookDecision(p, w) ==
    IF p.state = "present" /\ Matches(w.objs) = {}
    THEN <<Call("create_webhook", 0)>>
    ELSE <<>>

\* Both tests of main() read existing_branches, the listing made before
\* either; the second one does not see the branch the first one created.
BranchDecisionRereadsListing(p, w) ==
    (IF p.state = "present" /\ Matches(w.objs) = {}
     THEN <<Call("create_branch", 0)>>
          \o (IF p.is_default
              THEN <<Call("set_default_branch", 0), Call("set_default_branch", 0)>>
              ELSE <<>>)
     ELSE <<>>)
    \o
    (IF p.state = "present" /\ Matches(w.objs) # {} /\ ~w.isDefault /\ p.is_default
     THEN <<Call("set_default_branch", 0)>>
     ELSE <<>>)
BranchDecision(p, w) ==
    (IF p.state = "present" /\ Matches(w.objs) = {}
     THEN <<Call("create_branch", 0)>>
          \o (IF p.is_default THEN <<Call("set_default_branch", 0)>> ELSE <<>>)
     ELSE <<>>)
    \o
    (IF p.state = "present" /\ Matches(w.objs) # {} /\ ~w.isDefault /\ p.is_default
     THEN <<Call("set_default_branch", 0)>>
     ELSE <<>>)

DefaultBranchDecision(p, w) ==
    IF ~w.isDefault THEN <<Call("set_default_branch", 0)>> ELSE <<>>

\* delete_pull_request(module, bitbucket, d.get('id'), d.get('version')) for
\* the listed pull request d.
PullDeleteWithFirstVersion(w, d) ==
    [op |-> "delete_pull_request", target |-> d, version |-> w.versions[1]]
PullDelete(w, d) ==
    [op |-> "delete_pull_request", target |-> d, version |-> w.versions[d]]

PullRequestDecision(p, w) ==
    LET fromAny == \E i \in 1..Len(w.objs) : w.objs[i] \in {"both", "from"}
        toAny   == \E i \in 1..Len(w.objs) : w.objs[i] \in {"both", "to"}
        found   == ForEach(w.objs, "both", "delete_pull_request")
    IN  IF p.state = "present" /\ (~fromAny \/ ~toAny)
        THEN <<Call("create_pull_request", 0)>>
        ELSE IF w.objs # <<>> /\ p.state = "absent"
        THEN [k \in 1..Len(found) |-> PullDelete(w, found[k].target)]
        ELSE <<>>

ProjectReviewerDecision(p, w) ==
    IF p.state = "present" /\ Matches(w.objs) = {}
    THEN <<Call("add_default_reviewer", 0)>>
    ELSE IF w.objs # <<>> /\ p.state = "absent"
    THEN ForEach(w.objs, "match", "delete_default_reviewer")
    ELSE <<>>

\* 'found' holds more than one application link: main() fails at once.
ApplicationLinkAmbiguous(w) == Cardinality(Matches(w.objs)) > 1

ApplicationLinkDecision(p, w) ==
    LET found == Matches(w.objs)
    IN  IF p.state = "absent"
        THEN ForEach(w.objs, "match", "delete_application_link")
        ELSE IF found = {}
        THEN <<Call("create_application_link", 0), Call("update_application_link", 0)>>
        ELSE ForEach(w.objs, "match", "update_application_link")

DirectorySyncDecision(p, w) ==
    ForEach(w.objs, "directory", "synchronise_directory")

\* The listed users (or groups) whose name is the one given, both in lower
\* case ("cased": listed in another case than the one given).
NamedInSameCase(objs) == {i \in 1..Len(objs) : objs[i] \in {"match", "named"}}
Named(objs) == {i \in 1..Len(objs) : objs[i] \in {"match", "named", "cased"}}

\* Those of them listed with the permission given.
Holding(objs) == {i \in 1..Len(objs) : objs[i] \in {"match", "cased"}}

\* bitbucket_repo_permissions: revoke when permission is '' and the name is
\* listed; grant when a permission is given and the name is not listed with
\* that permission.
RepoPermissionsDecisionGrantsAnyway(p, w) ==
    LET name == IF Named(w.objs) = {} THEN 0 ELSE CHOOSE i \in Named(w.objs) : TRUE
    IN  (IF p.state = "absent" /\ Named(w.objs) # {}
         THEN <<Call("revoke_repository_permissions", name)>> ELSE <<>>)
        \o
        (IF Holding(w.objs) = {} \/ p.state = "absent"
         THEN <<Call("grant_repository_permissions", name)>> ELSE <<>>)
RepoPermissionsDecision(p, w) ==
    LET name == IF Named(w.objs) = {} THEN 0 ELSE CHOOSE i \in Named(w.objs) : TRUE
    IN  (IF p.state = "absent" /\ Named(w.objs) # {}
         THEN <<Call("revoke_repository_permissions", name)>> ELSE <<>>)
        \o
        (IF p.state = "present" /\ Holding(w.objs) = {}
         THEN <<Call("grant_repository_permissions", name)>> ELSE <<>>)

\* bitbucket_branch_permissions, for one of the restrictions given: create
\* when 'found' is empty and state is present; delete found[0] when it is not
\* and state is absent.
BranchPermissionsDecision(p, w) ==
    LET found == Matches(w.objs)
    IN  IF found = {}
        THEN IF p.state = "present"
             THEN <<Call("create_branch_permission", 0)>> ELSE <<>>
        ELSE IF p.state = "absent"
             THEN <<Call("delete_branch_permission",
                         CHOOSE i \in found : \A j \in found : i <= j)>>
             ELSE <<>>

\* The file contents of bitbucket_copy: a plain text, a JSON document, and
\* the text Python prints for the bytes of the plain text.
Texts == {"hi", "{}"}
Bodies == Texts \cup {"", "b'hi'"}

\* json.loads(body) does not raise.
IsJson(body) == body = "{}"

\* str() of the content that BitbucketHelper.request returns for a body:
\* the body under the key 'content' when it is no JSON, else the dict that
\* request built (an empty body leaves it empty), to which request adds
\* 'fetch_url_retries'.
RequestContent(body) ==
    IF body = "" \/ IsJson(body)
    THEN [key |-> "json", str |-> "{'fetch_url_retries': 1}"]
    ELSE [key |-> "content", str |-> body]

\* hashlib.md5(...).hexdigest(), taken as free of collisions.
md5(str) == <<"md5", str>>

\* get_dest_md5 on a destination that exists: the digest of str(content
\* ['content']), or of str(content) when there is no such key.
get_dest_md5(body) == md5(RequestContent(body).str)

\* src_md5 of main(): the digest of str(src_content), where src_content is
\* the bytes read from the src file (str() of bytes is their literal,
\* b'...') or the content string.
src_md5(source, text) ==
    md5(IF source = "src" THEN "b'" \o text \o "'" ELSE text)

CopyDecision(p, w) ==
    IF w.objs # <<>>
    THEN IF get_dest_md5(w.objs[1]) # src_md5(p.source, p.text)
         THEN <<Call("get_latest_commit", 0), Call("copy_file", 0)>>
         ELSE <<>>
    ELSE <<Call("copy_file", 0)>>

\* The calls main() makes whatever module.check_mode is.
Ungated(m) ==
    IF m = "bitbucket_directory_sync"
    THEN <<Call("login_to_bitbucket_server", 0)>>
    ELSE <<>>

\* 'if not module.check_mode:' around the calls decided.
GatedCallsIgnoringCheckMode(check, calls) == calls
GatedCalls(check, calls) == IF check THEN <<>> ELSE calls

\* The statuses a server may answer to the calls of a plan, one per call.
StatusChoices(plan) ==
    {sts \in [1..Len(plan) -> AllStatuses] :
        \A i \in 1..Len(plan) : sts[i] \in AnswerStatuses(plan[i].op)}

Request(op, target, version, st) ==
    [method |-> Method(op), op |-> op, target |-> target, version |-> version,
     status |-> st]

\* main() making the calls of plan from the i-th on, the server answering
\* sts: the requests sent, how the invocation ends, and the server's state.
RECURSIVE Execute(_, _, _, _)
Execute(plan, sts, i, r) ==
    IF i > Len(plan) THEN r
    ELSE LET op   == plan[i].op
             sent == Append(r.sent, Request(op, plan[i].target, plan[i].version,
                                           sts[i]))
             w    == IF sts[i] = SuccessStatus(op)
                     THEN Apply(op, plan[i].target, r.world)
                     ELSE r.world
             end  == OpOutcome(op, sts[i])
         IN  IF end = "continue"
             THEN Execute(plan, sts, i + 1,
                          [sent |-> sent, outcome |-> "ok", world |-> w])
             ELSE [sent |-> sent, outcome |-> end, world |-> w]

\* The helper calls by which main() of m reads the current state, in order,
\* before it decides.
Reads(m) ==
    CASE m = "bitbucket_project" -> <<"get_project_info">>
      [] m = "bitbucket_repo" -> <<"get_repository_info">>
      [] m = "bitbucket_branch" -> <<"get_branches_info">>
      [] m = "bitbucket_webhook" ->
            <<"get_project_info", "get_repository_info", "get_webhooks_info">>
      [] m = "bitbucket_default_branch" ->
            <<"get_project_info", "get_repository_info", "get_branches_info">>
      [] m = "bitbucket_pull_request" ->
            <<"get_project_info", "get_repository_info", "get_pull_request_info">>
      [] m = "bitbucket_project_reviewer" ->
            <<"get_project_info", "get_project_reviewers">>
      [] m = "bitbucket_application_link" -> <<"get_application_links_info">>
      [] m = "bitbucket_directory_sync" -> <<"get_user_directories_sync_operations">>
      [] m = "bitbucket_repo_permissions" ->
            <<"get_project_info", "get_repository_info",
              "get_repository_permissions_info">>
      [] m = "bitbucket_copy" ->
            <<"get_project_info", "get_repository_info", "get_dest_md5">>
      [] m = "git_commit" -> <<>>
      [] m = "bitbucket_branch_permissions" ->   \* for a repository's restrictions
            <<"get_project_info", "get_repository_info",
              "get_branch_permissions_info">>
      [] OTHER -> <<"get_project_info", "get_repository_info">>

\* The GET requests of those calls (each answered 200: the invocation
\* decides on what they return).
ReadRequests(m) == [i \in 1..Len(Reads(m)) |-> Request(Reads(m)[i], 0, -1, 200)]

\* Every request of an invocation in the order main() sends them: the
\* ungated calls, the reads (unless an ungated call ended the invocation),
\* then the calls decided.  'sent' holds the requests of the calls.
TraceReadsLast(m, sent, outcome) == sent \o ReadRequests(m)
Trace(m, sent, outcome) ==
    LET u == Len(Ungated(m))
    IN  IF u = 0 \/ Len(sent) > u \/ outcome = "ok"
        THEN SubSeq(sent, 1, u) \o ReadRequests(m) \o SubSeq(sent, u + 1, Len(sent))
        ELSE sent

\* The record of one invocation.  git: what it did to the local
\* repository, in order; messages: result['messages'] as it exits with.
Run(check, before, changed, outcome, sent) ==
    [check |-> check, before |-> before, changed |-> changed,
     outcome |-> outcome, sent |-> sent, log |-> Trace(mod, sent, outcome),
     git |-> <<>>, messages |-> <<>>]

\* The record of an invocation of a module that sends no request besides its
\* reads.
GitRun(check, before, changed, outcome, git) ==
    [Run(check, before, changed, outcome, <<>>) EXCEPT !.git = git]

States(m) ==
    IF m \in {"bitbucket_branch", "bitbucket_default_branch",
              "bitbucket_directory_sync", "bitbucket_clone", "bitbucket_push",
              "bitbucket_copy", "git_commit"}
    THEN {"present"}
    ELSE {"present", "absent"}

\* The parameters an invocation of m may be given (those m does not read
\* are held at their defaults).
ParamChoices(m) ==
    {Params(st, isd, f, c, d, us, so, tx, tg) :
        st \in States(m),
        so \in (IF m = "bitbucket_copy" THEN {"src", "content"} ELSE {"content"}),
        tx \in (IF m = "bitbucket_copy" THEN Texts ELSE {""}),
        tg \in (IF m \in {"bitbucket_push", "git_commit"}
                THEN BOOLEAN ELSE {FALSE}),
        us \in (IF m = "bitbucket_branch_permissions"
                THEN {"none", "upper", "lower"} ELSE {"none"}),
        isd \in (IF m = "bitbucket_branch" THEN BOOLEAN ELSE {FALSE}),
        f \in (IF m = "bitbucket_clone" THEN BOOLEAN ELSE {FALSE}),
        c \in (IF m = "bitbucket_push" THEN BOOLEAN ELSE {TRUE}),
        d \in (IF m = "bitbucket_push" THEN BOOLEAN ELSE {FALSE})}

\* The 'version' of each of n listed pull requests: all at 0, or some
\* updated once.
Versions(n) == {[i \in 1..n |-> 0], [i \in 1..n |-> i % 2]}

Kinds(m) ==
    CASE m = "bitbucket_pull_request" -> {"both", "from", "to"}
      [] m = "bitbucket_project_reviewer" -> {"match", "plain"}
      [] m = "bitbucket_directory_sync" -> {"directory"}
      [] m = "bitbucket_repo_permissions" -> {"match", "named", "cased", "other"}
      [] m = "bitbucket_copy" -> Bodies
      [] OTHER -> {"match", "other"}

\* What the objects of m's kind may be when m starts: one project or
\* repository per key and one branch per name at most; no objects for the
\* modules that work on a local repository; one entry per user or group
\* name in a repository's permissions.
ObjChoices(m) ==
    CASE m \in {"bitbucket_project", "bitbucket_repo"} -> {<<>>, <<"match">>}
      [] m \in {"bitbucket_branch", "bitbucket_default_branch"} ->
            {o \in SeqsUpTo(Kinds(m), MaxObjects) : Cardinality(Matches(o)) <= 1}
      [] m \in {"bitbucket_clone", "bitbucket_push", "git_commit"} -> {<<>>}
      [] m = "bitbucket_copy" -> SeqsUpTo(Kinds(m), 1)
      [] m = "bitbucket_repo_permissions" ->
            {o \in SeqsUpTo(Kinds(m), MaxObjects) : Cardinality(Named(o)) <= 1}
      [] OTHER -> SeqsUpTo(Kinds(m), MaxObjects)

WorldChoices(m) ==
    {World(ov[1], isd, pa, pe, ah, hr, ht[1], ht[2], ov[2], rp) :
        ov \in (IF m = "bitbucket_pull_request"
                THEN UNION {{o} \X Versions(Len(o)) : o \in ObjChoices(m)}
                ELSE {<<o, <<>>>> : o \in ObjChoices(m)}),
        ht \in (IF m \in {"bitbucket_push", "git_commit"}
                THEN {<<0, 0>>, <<1, 0>>, <<1, 1>>} ELSE {<<1, 0>>}),
        isd \in (IF m \in {"bitbucket_branch", "bitbucket_default_branch"}
                 THEN BOOLEAN ELSE {FALSE}),
        pa \in (CASE m = "bitbucket_clone" -> {"missing", "dir", "empty", "file"}
                  [] m \in {"bitbucket_push", "git_commit"} -> {"missing", "repo"}
                  [] OTHER -> {"missing"}),
        pe \in (IF m \in {"bitbucket_push", "git_commit"}
                THEN BOOLEAN ELSE {FALSE}),
        ah \in (IF m = "bitbucket_push" THEN BOOLEAN ELSE {FALSE}),
        hr \in (IF m = "bitbucket_push" THEN BOOLEAN ELSE {TRUE}),
        rp \in (IF m = "bitbucket_repo_permissions"
                THEN {"exists", "no_project", "no_repository"} ELSE {"exists"})}

ModuleInit ==
    /\ mod \in Modules
    /\ params \in ParamChoices(mod)
    /\ world \in {w \in WorldChoices(mod) :
                    /\ w.isDefault => Matches(w.objs) # {}
                    /\ w.ahead => w.head > 0
                    /\ w.repo # "exists" => w.objs = <<>>}
    /\ runs = <<>>
    /\ race = <<>>

\* A play invokes the module again only after an invocation that did not
\* fail.
CanRun ==
    /\ Len(runs) < MaxRuns
    /\ runs # <<>> => runs[Len(runs)].outcome = "ok"

\* main() of a module that reconciles over HTTP: the ungated calls, then the
\* calls decided, which check mode skips; 'changed' is set on exactly the
\* branches that hold a decided call, and exit_json reports it unless a call
\* ended the invocation first.
Reconcile(decided) ==
    \E check \in BOOLEAN :
        LET plan == Ungated(mod) \o GatedCalls(check, decided)
        IN  \E sts \in StatusChoices(plan) :
                LET r == Execute(plan, sts, 1,
                                 [sent |-> <<>>, outcome |-> "ok", world |-> world])
                IN  /\ runs' = Append(runs,
                            Run(check, world, r.outcome = "ok" /\ decided # <<>>,
                                r.outcome, r.sent))
                    /\ world' = Settle(r.world)

\* main() calling fail_json within the last of the calls decided, before
\* that call sends its request.
FailInLastCall(decided) ==
    LET plan == SubSeq(decided, 1, Len(decided) - 1)
    IN  \E sts \in StatusChoices(plan) :
            LET r == Execute(plan, sts, 1,
                             [sent |-> <<>>, outcome |-> "ok", world |-> world])
            IN  /\ runs' = Append(runs,
                        Run(FALSE, world, FALSE,
                            IF r.outcome = "ok" THEN "failed" ELSE r.outcome,
                            r.sent))
                /\ world' = Settle(r.world)

ProjectMain ==
    /\ mod = "bitbucket_project" /\ CanRun
    /\ Reconcile(ProjectDecision(params, world))
    /\ UNCHANGED <<mod, params, race, listVars, reqVars>>

RepoMain ==
    /\ mod = "bitbucket_repo" /\ CanRun
    /\ Reconcile(RepoDecision(params, world))
    /\ UNCHANGED <<mod, params, race, listVars, reqVars>>

WebhookMain ==
    /\ mod = "bitbucket_webhook" /\ CanRun
    /\ Reconcile(WebhookDecision(params, world))
    /\ UNCHANGED <<mod, params, race, listVars, reqVars>>

BranchMain ==
    /\ mod = "bitbucket_branch" /\ CanRun
    /\ Reconcile(BranchDecision(params, world))
    /\ UNCHANGED <<mod, params, race, listVars, reqVars>>

\* main() of bitbucket_default_branch fails when the branch is not listed.
DefaultBranchMain ==
    /\ mod = "bitbucket_default_branch" /\ CanRun
    /\ IF Matches(world.objs) = {}
       THEN /\ \E check \in BOOLEAN :
                 runs' = Append(runs, Run(check, world, FALSE, "failed", <<>>))
            /\ UNCHANGED world
       ELSE Reconcile(DefaultBranchDecision(params, world))
    /\ UNCHANGED <<mod, params, race, listVars, reqVars>>

PullRequestMain ==
    /\ mod = "bitbucket_pull_request" /\ CanRun
    /\ Reconcile(PullRequestDecision(params, world))
    /\ UNCHANGED <<mod, params, race, listVars, reqVars>>

ProjectReviewerMain ==
    /\ mod = "bitbucket_project_reviewer" /\ CanRun
    /\ Reconcile(ProjectReviewerDecision(params, world))
    /\ UNCHANGED <<mod, params, race, listVars, reqVars>>

ApplicationLinkMain ==
    /\ mod = "bitbucket_application_link" /\ CanRun
    /\ IF ApplicationLinkAmbiguous(world)
       THEN /\ \E check \in BOOLEAN :
                 runs' = Append(runs, Run(check, world, FALSE, "failed", <<>>))
            /\ UNCHANGED world
       ELSE Reconcile(ApplicationLinkDecision(params, world))
    /\ UNCHANGED <<mod, params, race, listVars, reqVars>>

DirectorySyncMain ==
    /\ mod = "bitbucket_directory_sync" /\ CanRun
    /\ Reconcile(DirectorySyncDecision(params, world))
    /\ UNCHANGED <<mod, params, race, listVars, reqVars>>

\* The git-askpass scripts on disk after main() called
\* create_git_askpass_script (mkstemp, then the script written to the file)
\* and ran the git command: os.unlink(git_askpass_script) follows the
\* command, and is not reached when the command ended the invocation.
AskpassLeft(scripts, ended) == IF ended THEN scripts + 1 ELSE scripts + 1 - 1

\* main() of bitbucket_clone.  'cloned': Repo.clone_from does not raise,
\* which it does when the destination exists and is not an empty directory.
CloneMain ==
    /\ mod = "bitbucket_clone" /\ CanRun
    /\ \E check \in BOOLEAN, cloned \in BOOLEAN :
        LET exists  == world.path # "missing"
            isdir   == world.path \in {"dir", "empty"}
            removes == exists /\ params.force /\ isdir
            rmtree  == IF removes /\ ~check THEN <<"rmtree">> ELSE <<>>
            path1   == IF removes /\ ~check THEN "missing" ELSE world.path
        IN  IF exists /\ params.force /\ ~isdir
            THEN /\ runs' = Append(runs, GitRun(check, world, FALSE, "failed", <<>>))
                 /\ UNCHANGED world
            ELSE IF check
            THEN /\ runs' = Append(runs, GitRun(check, world, removes, "ok", <<>>))
                 /\ world' = [world EXCEPT !.scripts = AskpassLeft(@, FALSE)]
            ELSE IF cloned /\ path1 \in {"missing", "empty"}
            THEN /\ runs' = Append(runs,
                        GitRun(check, world, TRUE, "ok", rmtree \o <<"clone">>))
                 /\ world' = [world EXCEPT !.path = "dir",
                                           !.scripts = AskpassLeft(@, FALSE)]
            ELSE /\ runs' = Append(runs,
                        GitRun(check, world, FALSE, "failed",
                               rmtree \o <<"clone_raised">>))
                 /\ world' = [world EXCEPT !.path = path1,
                                           !.scripts = AskpassLeft(@, TRUE)]
    /\ UNCHANGED <<mod, params, race, listVars, reqVars>>

\* 'if tag is not None: repo.create_tag(tag)', then repo.index.commit(...):
\* create_tag tags HEAD, and raises when there is no commit yet or a tag of
\* that name exists.
Commit(w, tagged) ==
    IF tagged /\ (w.head = 0 \/ w.tag # 0)
    THEN [raised |-> TRUE, world |-> w, git |-> <<"create_tag_raised">>]
    ELSE [raised |-> FALSE,
          world  |-> [w EXCEPT !.tag = IF tagged THEN w.head ELSE @,
                               !.head = @ + 1, !.pending = FALSE, !.ahead = TRUE],
          git    |-> (IF tagged THEN <<"create_tag">> ELSE <<>>) \o <<"commit">>]

\* What repo.remotes.origin.push(refspec) may do: raise (or return no
\* PushInfo, on which push_info[0] raises), return the PushInfo of a rejected
\* head, or push.
PushResults == {"raised", "rejected", "pushed"}

\* main() of bitbucket_push.
PushMain ==
    /\ mod = "bitbucket_push" /\ CanRun
    /\ \E check \in BOOLEAN, push \in PushResults :
        LET commits == params.commit /\ world.pending
            early   == commits \/ ~world.hasRemote
            c       == IF commits THEN Commit(world, params.tag)
                       ELSE [raised |-> FALSE, world |-> world, git |-> <<>>]
            remote  == IF world.hasRemote THEN <<>> ELSE <<"create_remote">>
            local   == [c.world EXCEPT !.hasRemote = TRUE]
        IN  IF world.path = "missing"
            THEN /\ runs' = Append(runs, GitRun(check, world, FALSE, "failed", <<>>))
                 /\ UNCHANGED world
            ELSE IF check
            THEN /\ runs' = Append(runs,
                        GitRun(check, world, early \/ params.delete, "ok", <<>>))
                 /\ world' = [world EXCEPT !.scripts = AskpassLeft(@, FALSE)]
            ELSE IF c.raised
            THEN /\ runs' = Append(runs, GitRun(check, world, FALSE, "crash", c.git))
                 /\ world' = c.world
            ELSE IF push = "raised"
            THEN /\ runs' = Append(runs,
                        GitRun(check, world, FALSE, "crash",
                               c.git \o remote \o <<"push_raised">>))
                 /\ world' = [local EXCEPT !.scripts = AskpassLeft(@, TRUE)]
            ELSE LET rmtree == IF params.delete THEN <<"rmtree">> ELSE <<>>
                     path1  == IF params.delete THEN "missing" ELSE world.path
                 IN  IF push = "rejected"
                     THEN /\ runs' = Append(runs,
                                GitRun(check, world, TRUE, "ok",
                                       c.git \o remote \o <<"push_rejected">>
                                             \o rmtree))
                          /\ world' = [local EXCEPT !.path = path1,
                                  !.scripts = AskpassLeft(@, FALSE)]
                     ELSE /\ runs' = Append(runs,
                                GitRun(check, world,
                                       early \/ local.ahead \/ params.delete, "ok",
                                       c.git \o remote \o <<"push">> \o rmtree))
                          /\ world' = [local EXCEPT !.ahead = FALSE,
                                  !.path = path1,
                                  !.scripts = AskpassLeft(@, FALSE)]
    /\ UNCHANGED <<mod, params, race, listVars, reqVars>>

\* main() of git_commit.
GitCommitMain ==
    /\ mod = "git_commit" /\ CanRun
    /\ \E check \in BOOLEAN :
        LET c == Commit(world, params.tag)
        IN  IF world.path = "missing"
            THEN /\ runs' = Append(runs, GitRun(check, world, FALSE, "failed", <<>>))
                 /\ UNCHANGED world
            ELSE IF ~world.pending \/ check
            THEN /\ runs' = Append(runs,
                        GitRun(check, world, world.pending, "ok", <<>>))
                 /\ UNCHANGED world
            ELSE IF c.raised
            THEN /\ runs' = Append(runs, GitRun(check, world, FALSE, "crash", c.git))
                 /\ world' = c.world
            ELSE /\ runs' = Append(runs, GitRun(check, world, TRUE, "ok", c.git))
                 /\ world' = c.world
    /\ UNCHANGED <<mod, params, race, listVars, reqVars>>

\* bitbucket_repo_permissions finding no project, or no repository: the
\* lookup answered 404 is its last request, and it exits with a message.
MissingRun(check, w) ==
    LET reads == IF w.repo = "no_project"
                 THEN <<Request("get_project_info", 0, -1, 404)>>
                 ELSE <<Request("get_project_info", 0, -1, 200),
                        Request("get_repository_info", 0, -1, 404)>>
    IN  [Run(check, w, FALSE, "ok", <<>>) EXCEPT
            !.log = reads,
            !.messages = <<IF w.repo = "no_project"
                           THEN "Project does not exist."
                           ELSE "Repository does not exist.">>]

RepoPermissionsMain ==
    /\ mod = "bitbucket_repo_permissions" /\ CanRun
    /\ IF world.repo = "exists"
       THEN Reconcile(RepoPermissionsDecision(params, world))
       ELSE \E check \in BOOLEAN :
                /\ runs' = Append(runs, MissingRun(check, world))
                /\ world' = world
    /\ UNCHANGED <<mod, params, race, listVars, reqVars>>

BranchPermissionsMain ==
    /\ mod = "bitbucket_branch_permissions" /\ CanRun
    /\ Reconcile(BranchPermissionsDecision(params, world))
    /\ UNCHANGED <<mod, params, race, listVars, reqVars>>

\* main() of bitbucket_copy.  copy_file fails before its request when
\* prepare_multipart raises, which it may on the bytes of a src file.
CopyMain ==
    /\ mod = "bitbucket_copy" /\ CanRun
    /\ LET decided == CopyDecision(params, world)
       IN  \/ Reconcile(decided)
           \/ /\ params.source = "src" /\ decided # <<>>
              /\ FailInLastCall(decided)
    /\ UNCHANGED <<mod, params, race, listVars, reqVars>>

InitMod == ListerIdle /\ ReqIdle /\ ModuleInit

NextMod ==
    \/ ProjectMain
    \/ RepoMain
    \/ WebhookMain
    \/ BranchMain
    \/ DefaultBranchMain
    \/ PullRequestMain
    \/ ProjectReviewerMain
    \/ ApplicationLinkMain
    \/ DirectorySyncMain
    \/ CloneMain
    \/ PushMain
    \/ RepoPermissionsMain
    \/ BranchPermissionsMain
    \/ CopyMain
    \/ GitCommitMain

SpecMod == InitMod /\ [][NextMod]_vars

----------------------------------------------------------------------------
(* Two invocations of bitbucket_project, or of bitbucket_repo, for the
   same key against one server.  Each invocation is a sequence of requests;
   the requests of the two interleave in any order. *)

\* The 'retries' parameter the invocations run with (its default).
DefaultRetries == 3

\* An invocation that has not read yet.
Racer(check) == [pc |-> "start", check |-> check, before |-> <<>>, attempts |-> <<>>]

RaceInit ==
    /\ mod \in {"bitbucket_project", "bitbucket_repo"}
    /\ params \in {p \in ParamChoices(mod) : p.state = "present"}
    /\ world \in WorldChoices(mod)
    /\ runs = <<>>
    /\ race \in [1..2 -> {Racer(check) : check \in BOOLEAN}]

\* What main() decides on what invocation i read.
RaceDecision(i) ==
    IF mod = "bitbucket_project" THEN ProjectDecision(params, race[i].before)
    ELSE RepoDecision(params, race[i].before)

\* How create_project, or create_repository, ends on info['status'].
CreateEndTakesConflictAsCreated(op, st) ==
    IF st = 409 THEN "continue" ELSE OpOutcome(op, st)
CreateEnd(op, st) == OpOutcome(op, st)

\* What a creation request to a server holding w may come to: the object
\* created and 201 answered when there is none of that key, 409 answered
\* when there is one; or no answer reaching the invocation
\* (info['status'] == -1), the request lost or, after the object was
\* created, the answer.
RaceAnswers(w) ==
    IF Matches(w.objs) # {}
    THEN {[status |-> 409, created |-> FALSE],
          [status |-> NoStatus, created |-> FALSE]}
    ELSE {[status |-> 201, created |-> TRUE],
          [status |-> NoStatus, created |-> TRUE],
          [status |-> NoStatus, created |-> FALSE]}

\* main(): existing_project = bitbucket.get_project_info(...).
RaceRead ==
    /\ \E i \in 1..2 :
        /\ race[i].pc = "start"
        /\ race' = [race EXCEPT ![i].pc = "read", ![i].before = world]
    /\ UNCHANGED <<mod, params, world, runs, listVars, reqVars>>

\* main() with no request to send (nothing to do, or check mode):
\* exit_json(changed=changed).
RaceExit ==
    /\ \E i \in 1..2 :
        /\ race[i].pc = "read"
        /\ GatedCalls(race[i].check, RaceDecision(i)) = <<>>
        /\ race' = [race EXCEPT ![i].pc = "done"]
        /\ runs' = Append(runs, Run(race[i].check, race[i].before,
                                    RaceDecision(i) # <<>>, "ok", <<>>))
    /\ UNCHANGED <<mod, params, world, listVars, reqVars>>

\* One attempt of the POST of create_project (create_repository) in
\* BitbucketHelper.request: the request is attempted again while no answer
\* came and attempts are left; the function then ends the invocation on the
\* status of the last attempt.
RacePost ==
    /\ \E i \in 1..2 :
        /\ race[i].pc = "read"
        /\ GatedCalls(race[i].check, RaceDecision(i)) # <<>>
        /\ \E a \in RaceAnswers(world) :
            LET op   == RaceDecision(i)[1].op
                atts == Append(race[i].attempts, a.status)
                end  == CreateEnd(op, a.status)
            IN  /\ world' = IF a.created THEN Apply(op, 0, world) ELSE world
                /\ IF a.status = NoStatus /\ Len(atts) < DefaultRetries
                   THEN /\ race' = [race EXCEPT ![i].attempts = atts]
                        /\ UNCHANGED runs
                   ELSE /\ race' = [race EXCEPT ![i].attempts = atts,
                                                ![i].pc = "done"]
                        /\ runs' = Append(runs,
                                Run(race[i].check, race[i].before,
                                    end = "continue",
                                    IF end = "continue" THEN "ok" ELSE end,
                                    <<Request(op, 0, -1, a.status)>>))
    /\ UNCHANGED <<mod, params, listVars, reqVars>>

InitRace == ListerIdle /\ ReqIdle /\ RaceInit

NextRace ==
    \/ RaceRead
    \/ RaceExit
    \/ RacePost

SpecRace == InitRace /\ [][NextRace]_vars

----------------------------------------------------------------------------
(* Claims about the modules (SpecMod) *)

\* Every request of the invocation was answered with its success status.
Succeeded(run) ==
    \A k \in 1..Len(run.sent) :
        run.sent[k].status = SuccessStatus(run.sent[k].op)

\* C7 (as stated) -- Dry-run non-mutation: an invocation in check mode sends
\* no POST, PUT or DELETE request, whatever it decides; bitbucket_project,
\* bitbucket_application_link and bitbucket_directory_sync included.
C7_CheckModeSendsNoPostPutDelete ==
    \A i \in 1..Len(runs) :
        runs[i].check =>
            \A k \in 1..Len(runs[i].sent) :
                runs[i].sent[k].method \notin {"POST", "PUT", "DELETE"}

\* C7 -- Dry-run non-mutation: an invocation in check mode sends none of the
\* requests it decided on (no create, update, delete or synchronise request,
\* so no PUT and no DELETE); the only POST it sends is the login form that
\* bitbucket_directory_sync posts before it can read the user directories.
C7_CheckModeSendsOnlyLogin ==
    \A i \in 1..Len(runs) :
        runs[i].check =>
            \A k \in 1..Len(runs[i].sent) :
                /\ mod = "bitbucket_directory_sync"
                /\ runs[i].sent[k].op = "login_to_bitbucket_server"
                /\ runs[i].sent[k].method = "POST"

C7_Witness ==
    \E i \in 1..Len(runs) :
        /\ runs[i].check
        /\ runs[i].outcome = "ok"
        /\ runs[i].changed
        /\ Len(runs[i].before.objs) >= 2
        /\ Len(runs[i].sent) = 1

\* C8 -- Dry-run verdict equivalence: a check-mode invocation and a real
\* invocation of the same module with the same parameters, started from the
\* same remote and local state, report the same 'changed' (the real one's
\* requests all succeeding); bitbucket_clone and bitbucket_push included.
C8_DryRunVerdictEquivalence ==
    \A i, j \in 1..Len(runs) :
        (/\ runs[i].check /\ ~runs[j].check
         /\ runs[i].before = runs[j].before
         /\ runs[i].outcome = "ok" /\ runs[j].outcome = "ok"
         /\ Succeeded(runs[j]))
        => runs[i].changed = runs[j].changed

\* The object the parameters describe is as they want it.
Desired(m, p, w) ==
    IF m = "bitbucket_branch"
    THEN Matches(w.objs) # {} /\ (p.is_default => w.isDefault)
    ELSE (p.state = "present") <=> (Matches(w.objs) # {})

\* C9 -- Idempotence: two real invocations of bitbucket_project,
\* bitbucket_repo, bitbucket_webhook or bitbucket_branch in a row with the
\* same parameters, the server applying the first one's requests: the first
\* reports changed=true when the object was not as desired, the second
\* reports changed=false and sends no mutating request.
C9_Idempotence ==
    mod \in {"bitbucket_project", "bitbucket_repo", "bitbucket_webhook",
             "bitbucket_branch"} =>
        \A i \in 1..(Len(runs) - 1) :
            (/\ ~runs[i].check /\ ~runs[i + 1].check
             /\ runs[i].outcome = "ok" /\ Succeeded(runs[i])
             /\ runs[i + 1].outcome = "ok")
            => /\ ~Desired(mod, params, runs[i].before) => runs[i].changed
               /\ ~runs[i + 1].changed
               /\ runs[i + 1].sent = <<>>

\* C10 -- Mutation failure is fatal: an invocation in which a create, update
\* or delete request was answered with anything but the endpoint's success
\* status (400, 409, 500, the transport failure -1, ...) ends in a failure,
\* never in a successful exit.
C10_MutationFailureIsFatal ==
    \A i \in 1..Len(runs) :
        (\E k \in 1..Len(runs[i].sent) :
            /\ runs[i].sent[k].method \in {"POST", "PUT", "DELETE"}
            /\ runs[i].sent[k].status # SuccessStatus(runs[i].sent[k].op))
        => runs[i].outcome # "ok"

\* What a request does to the object it is about.
ActionKind(op) ==
    CASE op \in {"create_project", "create_repository", "create_webhook",
                 "create_branch", "create_pull_request", "add_default_reviewer",
                 "create_application_link", "create_branch_permission"} -> "create"
      [] op \in {"update_application_link", "set_default_branch",
                 "grant_repository_permissions", "copy_file"} -> "update"
      [] op \in {"delete_project", "delete_repository", "delete_pull_request",
                 "delete_default_reviewer", "delete_application_link",
                 "revoke_repository_permissions",
                 "delete_branch_permission"} -> "delete"
      [] OTHER -> "read"   \* the reads, the login, the synchronise GET

\* The kinds of the creating, updating and deleting requests of a run.
ActionKinds(run) ==
    {ActionKind(run.sent[k].op) : k \in 1..Len(run.sent)} \ {"read"}

\* C11 (as stated) -- Exactly one action per evaluation: the creating,
\* updating and deleting requests of one invocation are all of one kind
\* (create, update or delete), or there are none (no-op).
C11_ExactlyOneAction ==
    \A i \in 1..Len(runs) : Cardinality(ActionKinds(runs[i])) <= 1

\* C11 -- One branch per evaluation: an invocation never sends both a create
\* (or an update, or a grant) and a delete (or a revoke); an invocation that
\* reports changed=false sent no creating, updating or deleting request; the
\* only invocations that send requests of two kinds are the create branches of
\* bitbucket_application_link (create, then the update of the link created)
\* and of bitbucket_branch with is_default (create, then set default), where
\* the create request comes first.
C11_OneBranchPerEvaluation ==
    \A i \in 1..Len(runs) :
        LET run == runs[i]
        IN  /\ "delete" \in ActionKinds(run) => ActionKinds(run) = {"delete"}
            /\ (run.outcome = "ok" /\ ~run.changed) => ActionKinds(run) = {}
            /\ Cardinality(ActionKinds(run)) > 1 =>
                    /\ mod \in {"bitbucket_application_link", "bitbucket_branch"}
                    /\ Len(run.sent) = 2
                    /\ ActionKind(run.sent[1].op) = "create"
                    /\ ActionKind(run.sent[2].op) = "update"
                    /\ Matches(run.before.objs) = {}

C11_Witness ==
    \E i \in 1..Len(runs) :
        /\ mod = "bitbucket_repo_permissions"
        /\ ~runs[i].check /\ runs[i].outcome = "ok" /\ runs[i].changed
        /\ Named(runs[i].before.objs) # {}
        /\ Len(runs[i].sent) = 1
        /\ runs[i].sent[1].op = "grant_repository_permissions"
        /\ Succeeded(runs[i])

\* C12 -- Webhook removal: a real invocation of bitbucket_webhook with
\* state=absent that finds a webhook of the given name sends a DELETE request
\* and reports changed=true; finding none it sends nothing and reports
\* changed=false.
C12_WebhookRemoval ==
    (mod = "bitbucket_webhook" /\ params.state = "absent") =>
        \A i \in 1..Len(runs) :
            (~runs[i].check /\ runs[i].outcome = "ok") =>
                IF Matches(runs[i].before.objs) # {}
                THEN /\ runs[i].changed
                     /\ \E k \in 1..Len(runs[i].sent) :
                            runs[i].sent[k].method = "DELETE"
                ELSE /\ ~runs[i].changed
                     /\ runs[i].sent = <<>>

\* C13 -- No-op on satisfied match: with state=present, a real invocation
\* that finds exactly one matching object which already has all desired
\* fields (the preceding invocation, with the same parameters, applied them
\* successfully) sends no mutating request and reports changed=false;
\* bitbucket_application_link run twice included.
C13_NoOpOnSatisfiedMatch ==
    params.state = "present" =>
        \A i \in 1..(Len(runs) - 1) :
            (/\ ~runs[i].check /\ runs[i].outcome = "ok" /\ Succeeded(runs[i])
             /\ ~runs[i + 1].check /\ runs[i + 1].outcome = "ok"
             /\ Cardinality(Matches(runs[i + 1].before.objs)) = 1)
            => /\ ~runs[i + 1].changed
               /\ ActionKinds(runs[i + 1]) = {}

\* C14 -- Ambiguity detection: with state=present, an invocation that finds
\* two or more existing items matching the desired object fails and sends no
\* mutating request; bitbucket_application_link, bitbucket_webhook and
\* bitbucket_branch_permissions included.
C14_AmbiguityDetection ==
    params.state = "present" =>
        \A i \in 1..Len(runs) :
            Cardinality(Matches(runs[i].before.objs)) >= 2
            => /\ runs[i].outcome = "failed"
               /\ ActionKinds(runs[i]) = {}

\* The listed objects that match the desired one in full.
FullMatches(m, objs) ==
    {i \in 1..Len(objs) :
        objs[i] = (IF m = "bitbucket_pull_request" THEN "both" ELSE "match")}

\* The DELETE requests of a run.
Deletes(run) == {k \in 1..Len(run.sent) : run.sent[k].method = "DELETE"}

\* C15 -- Delete every match: a real invocation of bitbucket_pull_request,
\* bitbucket_project_reviewer, bitbucket_branch_permissions or
\* bitbucket_application_link with state=absent that finds k matching items
\* (the server accepting every request) sends k DELETE requests, one per
\* matching item, and exits with changed=true when k >= 1, changed=false and
\* no request when k = 0.
C15_DeleteEveryMatch ==
    (/\ params.state = "absent"
     /\ mod \in {"bitbucket_pull_request", "bitbucket_project_reviewer",
                 "bitbucket_branch_permissions", "bitbucket_application_link"})
    => \A i \in 1..Len(runs) :
            (~runs[i].check /\ Succeeded(runs[i])) =>
                LET found == FullMatches(mod, runs[i].before.objs)
                IN  /\ runs[i].outcome = "ok"
                    /\ runs[i].changed = (found # {})
                    /\ Len(runs[i].sent) = Cardinality(found)
                    /\ {runs[i].sent[k].target : k \in Deletes(runs[i])} = found

\* C19 (as stated) -- Read before write: in every invocation, every POST, PUT
\* or DELETE request is preceded, in that same invocation, by the GET of each
\* helper call by which the module reads the current state.
C19_ReadBeforeEveryPostPutDelete ==
    \A i \in 1..Len(runs) :
        \A k \in 1..Len(runs[i].log) :
            runs[i].log[k].method \in {"POST", "PUT", "DELETE"} =>
                \A g \in 1..Len(Reads(mod)) :
                    \E j \in 1..(k - 1) :
                        /\ runs[i].log[j].op = Reads(mod)[g]
                        /\ runs[i].log[j].method = "GET"

\* C19 -- Read before write: in every invocation, every creating, updating
\* or deleting request is preceded, in that same invocation, by the GET of
\* each helper call by which the module reads the current state of what it
\* reconciles.
C19_ReadBeforeWrite ==
    \A i \in 1..Len(runs) :
        \A k \in 1..Len(runs[i].log) :
            ActionKind(runs[i].log[k].op) # "read" =>
                \A g \in 1..Len(Reads(mod)) :
                    \E j \in 1..(k - 1) :
                        /\ runs[i].log[j].op = Reads(mod)[g]
                        /\ runs[i].log[j].method = "GET"

\* A second invocation changes the server after reading it again.
C19_Witness ==
    /\ Len(runs) = 2
    /\ runs[1].outcome = "ok"
    /\ ~runs[2].check /\ runs[2].outcome = "ok" /\ Succeeded(runs[2])
    /\ ActionKinds(runs[2]) # {}
    /\ Len(runs[2].log) = Len(Reads(mod)) + Len(runs[2].sent)

\* C21 -- Pull-request creation: a real invocation of bitbucket_pull_request
\* with state=present sends a create request and reports changed=true when no
\* existing pull request has both the from_branch and the to_branch, and
\* sends nothing and reports changed=false when one has; pull requests that
\* match only one of the two branches do not count.
C21_PullRequestCreation ==
    (mod = "bitbucket_pull_request" /\ params.state = "present") =>
        \A i \in 1..Len(runs) :
            (~runs[i].check /\ Succeeded(runs[i])) =>
                IF FullMatches(mod, runs[i].before.objs) = {}
                THEN /\ runs[i].changed
                     /\ Len(runs[i].sent) = 1
                     /\ runs[i].sent[1].op = "create_pull_request"
                ELSE /\ ~runs[i].changed
                     /\ runs[i].sent = <<>>

\* C22 -- Idempotence of branch restrictions: of two real invocations of
\* bitbucket_branch_permissions in a row with state=present and the same
\* restriction, the server storing what the first one posted, the second
\* reports changed=false and sends no request, whatever the case of the
\* user names in the exemptions.
C22_BranchRestrictionsIdempotence ==
    (mod = "bitbucket_branch_permissions" /\ params.state = "present") =>
        \A i \in 1..(Len(runs) - 1) :
            (/\ ~runs[i].check /\ runs[i].outcome = "ok" /\ Succeeded(runs[i])
             /\ ~runs[i + 1].check /\ Succeeded(runs[i + 1]))
            => /\ ~runs[i + 1].changed
               /\ runs[i + 1].sent = <<>>

\* C23 -- Idempotence of default reviewers: of two real invocations of
\* bitbucket_project_reviewer in a row with state=present and the same branch
\* and reviewers, the server storing the condition of the first one as it
\* was sent, the second reports changed=false and sends no create request.
C23_DefaultReviewersIdempotence ==
    (mod = "bitbucket_project_reviewer" /\ params.state = "present") =>
        \A i \in 1..(Len(runs) - 1) :
            (/\ ~runs[i].check /\ runs[i].outcome = "ok" /\ Succeeded(runs[i])
             /\ ~runs[i + 1].check /\ Succeeded(runs[i + 1]))
            => /\ ~runs[i + 1].changed
               /\ \A k \in 1..Len(runs[i + 1].sent) :
                      runs[i + 1].sent[k].op # "add_default_reviewer"

\* C24 -- Idempotence of file copy: a real invocation of bitbucket_copy
\* uploads only when the destination is missing or its checksum differs from
\* the source's; of two real invocations in a row with the same source (a src
\* file or a content string) and destination, the server storing the first
\* upload, the second reports changed=false and sends no PUT.
C24_CopyIdempotence ==
    mod = "bitbucket_copy" =>
        /\ \A i \in 1..Len(runs) :
              (\E k \in 1..Len(runs[i].sent) : runs[i].sent[k].op = "copy_file")
              => \/ runs[i].before.objs = <<>>
                 \/ get_dest_md5(runs[i].before.objs[1])
                        # src_md5(params.source, params.text)
        /\ \A i \in 1..(Len(runs) - 1) :
              (/\ ~runs[i].check /\ runs[i].outcome = "ok" /\ Succeeded(runs[i])
               /\ runs[i].changed
               /\ ~runs[i + 1].check /\ Succeeded(runs[i + 1]))
              => /\ ~runs[i + 1].changed
                 /\ \A k \in 1..Len(runs[i + 1].sent) :
                        runs[i + 1].sent[k].method # "PUT"

\* C25 -- Pull-request delete version: every DELETE of a pull request
\* carries the version of that same pull request as the listing GET returned
\* it earlier in the same invocation; the DELETEs of one invocation are for
\* different pull requests, each with its own id and version.
C25_PullRequestDeleteVersion ==
    mod = "bitbucket_pull_request" =>
        \A i \in 1..Len(runs) :
            LET run  == runs[i]
                dels == {k \in 1..Len(run.log) :
                            run.log[k].op = "delete_pull_request"}
            IN  /\ \A k \in dels :
                      /\ run.log[k].method = "DELETE"
                      /\ run.log[k].target \in FullMatches(mod, run.before.objs)
                      /\ run.log[k].version = run.before.versions[run.log[k].target]
                      /\ \E j \in 1..(k - 1) :
                            /\ run.log[j].op = "get_pull_request_info"
                            /\ run.log[j].method = "GET"
                /\ \A k, l \in dels :
                      k # l => run.log[k].target # run.log[l].target

\* Two pull requests with different versions are deleted in one invocation.
C25_Witness ==
    /\ mod = "bitbucket_pull_request"
    /\ \E i \in 1..Len(runs) :
          /\ runs[i].outcome = "ok" /\ Succeeded(runs[i])
          /\ Len(runs[i].sent) = 2
          /\ runs[i].sent[1].op = "delete_pull_request"
          /\ runs[i].sent[2].op = "delete_pull_request"
          /\ runs[i].sent[1].version # runs[i].sent[2].version

\* The local and remote state an invocation leaves.
After(i) == IF i < Len(runs) THEN runs[i + 1].before ELSE world

\* C26 -- Tag on the new commit: when a real invocation of git_commit, or of
\* bitbucket_push with commit=yes, that is given a tag commits pending
\* changes, the tag refers afterwards to the commit the invocation created,
\* not to the commit that was HEAD before.
C26_TagOnNewCommit ==
    (mod \in {"git_commit", "bitbucket_push"} /\ params.tag) =>
        \A i \in 1..Len(runs) :
            After(i).head > runs[i].before.head =>
                /\ After(i).tag = After(i).head
                /\ After(i).tag # runs[i].before.head

\* The operations of a run on the local repository, as a set.
GitOps(run) == {run.git[k] : k \in 1..Len(run.git)}

\* C27 -- Delete after push: an invocation of bitbucket_push with delete=yes
\* removes the local repository directory only after it has pushed and the
\* push has not failed; when the push fails the directory stays, and in
\* check mode the directory is never removed.
C27_DeleteAfterPush ==
    (mod = "bitbucket_push" /\ params.delete) =>
        \A i \in 1..Len(runs) :
            LET run == runs[i]
            IN  /\ "rmtree" \in GitOps(run) =>
                      \E k \in 1..Len(run.git) :
                          /\ run.git[k] = "push"
                          /\ \A l \in 1..k : run.git[l] # "rmtree"
                /\ GitOps(run) \cap {"push_raised", "push_rejected"} # {} =>
                      /\ "rmtree" \notin GitOps(run)
                      /\ After(i).path = run.before.path
                /\ run.check =>
                      /\ "rmtree" \notin GitOps(run)
                      /\ After(i).path = run.before.path

\* C28 -- Clone force semantics: an invocation of bitbucket_clone removes an
\* existing destination before cloning if and only if force=yes and the path
\* is a directory; with force=no an existing destination is neither removed
\* nor modified; when the path exists and is not a directory the invocation
\* fails, removing and cloning nothing.
C28_CloneForceSemantics ==
    mod = "bitbucket_clone" =>
        \A i \in 1..Len(runs) :
            LET run    == runs[i]
                exists == run.before.path # "missing"
                isdir  == run.before.path \in {"dir", "empty"}
            IN  /\ ~run.check =>
                      ("rmtree" \in GitOps(run) <=> (params.force /\ exists /\ isdir))
                /\ "rmtree" \in GitOps(run) => run.git[1] = "rmtree"
                /\ (~params.force /\ exists) =>
                      /\ "rmtree" \notin GitOps(run)
                      /\ After(i).path = run.before.path
                /\ (exists /\ ~isdir) =>
                      /\ run.outcome = "failed"
                      /\ GitOps(run) \cap {"rmtree", "clone"} = {}
                      /\ After(i).path = run.before.path

fetch_url_retries == retries

\* C30 -- Attempt count reporting: the 'fetch_url_retries' that
\* BitbucketHelper.request returns is the number of attempts it made: k when
\* the k-th attempt got an answer, the configured 'retries' when every
\* attempt failed.
C30_AttemptCountReporting ==
    (client = "BitbucketHelper.request" /\ rpc = "returned") =>
        /\ fetch_url_retries = Len(attempts)
        /\ (\A i \in 1..Len(attempts) : attempts[i] = NoStatus) =>
                fetch_url_retries = retriesParam

\* C31 -- Zero retries: whatever 'retries' >= 0 is configured, 0 included,
\* BitbucketHelper.request makes at least one attempt and returns info and
\* content to its caller; it never ends in an unhandled error.
C31_ZeroRetries ==
    (client = "BitbucketHelper.request" /\ RequestDone) =>
        /\ Len(attempts) >= 1
        /\ rpc = "returned"

\* C32 -- No shared retry state: every call of BitbucketHelper.request in an
\* invocation starts with the full budget of 'retries' attempts, whatever
\* the calls before it used (a call whose attempts all fail makes as many as
\* are configured, a call makes no more than that), and finds and leaves
\* 'retries' and 'sleep' as configured.
C32_NoSharedRetryState ==
    client = "BitbucketHelper.request" =>
        /\ \A k \in 1..Len(callLog) :
              /\ callLog[k].budget = callLog[1].budget
              /\ callLog[k].sleep = callLog[1].sleep
              /\ callLog[k].finished =>
                    /\ callLog[k].retriesLeft = callLog[1].budget
                    /\ callLog[k].sleepLeft = callLog[1].sleep
                    /\ callLog[k].attempts <= callLog[1].budget
                    /\ callLog[k].exhausted => callLog[k].attempts = callLog[1].budget
        /\ rpc = "loop" => Len(attempts) = retries - 1

\* A call that retried is followed by a call in which every attempt fails.
C32_Witness ==
    /\ client = "BitbucketHelper.request"
    /\ Len(callLog) = 2
    /\ callLog[1].attempts >= 2
    /\ callLog[2].finished /\ callLog[2].exhausted
    /\ callLog[2].attempts = retriesParam

\* The operations of the requests a run sent, in order.
SentOps(run) == [k \in 1..Len(run.sent) |-> run.sent[k].op]

\* C33 -- Branch decision table: an invocation of bitbucket_branch whose
\* requests all succeed (a) sends one create request, followed by one
\* set-default request only if is_default, and reports changed=true when the
\* branch is not listed; (b) sends one set-default request and reports
\* changed=true when the branch is listed, is not the default and is_default
\* is set; (c) sends nothing and reports changed=false otherwise.  In check
\* mode it reports the same and sends nothing.  No invocation sends
\* set-default twice.
C33_BranchDecisionTable ==
    mod = "bitbucket_branch" =>
        \A i \in 1..Len(runs) :
            LET run    == runs[i]
                listed == Matches(run.before.objs) # {}
                table  == IF ~listed
                          THEN IF params.is_default
                               THEN <<"create_branch", "set_default_branch">>
                               ELSE <<"create_branch">>
                          ELSE IF ~run.before.isDefault /\ params.is_default
                          THEN <<"set_default_branch">>
                          ELSE <<>>
            IN  /\ (~run.check /\ Succeeded(run)) =>
                      /\ run.outcome = "ok"
                      /\ SentOps(run) = table
                      /\ run.changed = (table # <<>>)
                /\ run.check =>
                      /\ run.sent = <<>>
                      /\ run.changed = (table # <<>>)
                /\ Cardinality({k \in 1..Len(run.sent) :
                                   run.sent[k].op = "set_default_branch"}) <= 1

\* The branch is created and made the default in one invocation; the next
\* one finds nothing to do.
C33_Witness ==
    /\ mod = "bitbucket_branch" /\ params.is_default
    /\ Len(runs) = 2
    /\ ~runs[1].check /\ Succeeded(runs[1])
    /\ SentOps(runs[1]) = <<"create_branch", "set_default_branch">>
    /\ ~runs[2].check /\ runs[2].outcome = "ok"
    /\ runs[2].sent = <<>> /\ ~runs[2].changed

C35_LocalCommitVerdict ==
    mod = "git_commit" =>
        \A i \in 1..Len(runs) :
            LET run == runs[i]
            IN  run.before.path = "repo" =>
                    /\ run.outcome = "ok"
                    /\ run.changed = run.before.pending
                    /\ run.check => /\ run.git = <<>>
                                    /\ After(i).head = run.before.head
                                    /\ After(i).tag = run.before.tag
                    /\ (i > 1 /\ "commit" \in GitOps(runs[i - 1])) =>
                            /\ ~run.changed
                            /\ "commit" \notin GitOps(run)

\* C36 -- Temporary credential script cleanup: when an invocation of
\* bitbucket_clone or bitbucket_push ends, however it ends (the clone or the
\* push failing included), no git-askpass script it created is left on disk.
C36_AskpassScriptRemoved ==
    mod \in {"bitbucket_clone", "bitbucket_push"} =>
        \A i \in 1..Len(runs) : After(i).scripts = 0

----------------------------------------------------------------------------
(* Claims about two invocations against one server (SpecRace) *)

============================================================================
